---- MODULE Spec2Model ----
(***************************************************************************)
(* Model of ciphers.py: the VigenereCipher and BlockAffineCipher classes.  *)
(*                                                                         *)
(* Characters are their code points (65 = 'A', 97 = 'a', 48 = '0',         *)
(* 95 = '_', 32 = ' ', 33 = '!'), strings are sequences of code points.    *)
(* Python indexes from 0, TLA+ sequences from 1: an operator that returns  *)
(* a Python index (Index, find) returns the 0-based value, and the model   *)
(* adds 1 where it subscripts a sequence with it.  Input characters are    *)
(* ASCII.                                                                  *)
(*                                                                         *)
(* The state is one cipher object (cls says of which class), the argument  *)
(* it was constructed from (raw) and the log of the calls made on it.      *)
(***************************************************************************)
EXTENDS Integers, Sequences, FiniteSets, TLC

VARIABLES cls, full, text, table, modulo, alpha, raw, calls

vars == <<cls, full, text, table, modulo, alpha, raw, calls>>

\* ------------------------------------------------------------------ bounds
\* Longest constructor argument (raw plaintext).
MaxLen == 2
\* Number of encrypt/decrypt calls made on one object.
MaxCalls == 2

\* Characters of the raw plaintext: 'A', 'b', '1', ' '.
RawChars == {65, 98, 49, 32}
\* Vigenere keys: "", "!", "Bc", "1B".
Keys == {<<>>, <<33>>, <<66, 99>>, <<49, 66>>}
\* Affine key pairs (keya, keyb): 3 and -5 are coprime to 26 and to 52, 13 is not.
AffineKeys == {<<3, 5>>, <<-5, -7>>, <<13, 0>>}
\* Moduli given to the BlockAffineCipher constructor.
Moduli == {1, 26, 52}

\* ------------------------------------------------------------------ helpers
Range(s) == {s[i] : i \in 1..Len(s)}

Max(S) == CHOOSE x \in S : \A y \in S : y <= x

Min(S) == CHOOSE x \in S : \A y \in S : x <= y

RECURSIVE Join(_)
\* ''.join(result): result is a sequence of strings.
Join(parts) ==
    IF parts = <<>> THEN <<>> ELSE Head(parts) \o Join(Tail(parts))

RECURSIVE SeqsUpTo(_, _)
\* All strings over S of length at most n.
SeqsUpTo(S, n) ==
    IF n = 0 THEN {<<>>}
    ELSE LET shorter == SeqsUpTo(S, n - 1)
         IN  shorter \cup {Append(s, c) : s \in shorter, c \in S}

\* ------------------------------------------------------------------ alphabets
u_alpha == [i \in 1..26 |-> 64 + i]

ul_alpha == u_alpha \o [i \in 1..26 |-> 96 + i]

\* alpha = ul_alpha if full else u_alpha
AlphaOf(f) == IF f THEN ul_alpha ELSE u_alpha

\* ------------------------------------------------------------------ normalisation
\* \w of the re module on ASCII: letters, digits and underscore.
IsWord(c) == c \in (48..57) \cup (65..90) \cup (97..122) \cup {95}

\* re.sub(r"\W+", "", s, flags=re.UNICODE)
StripNonWord(s) == SelectSeq(s, IsWord)

\* str.upper()
upper(s) == [i \in 1..Len(s) |-> IF s[i] \in 97..122 THEN s[i] - 32 ELSE s[i]]

\* The two statements every constructor and expand() apply to a string.
Normalize(s, f) == IF f THEN StripNonWord(s) ELSE upper(StripNonWord(s))

\* ------------------------------------------------------------------ Vigenere table
\* Rotate with the front taken from the wrong end: row[:i] for row[:-i].
Rotate_front(row, i) ==
    LET n     == Len(row)
        back  == IF i = 0 THEN row ELSE SubSeq(row, n - i + 1, n)
        front == IF i = 0 THEN <<>> ELSE SubSeq(row, 1, i)
    IN  back \o front

\* back, front = row[-i:], row[:-i]; back + front   (row[-0:] is the whole row)
Rotate(row, i) ==
    LET n     == Len(row)
        back  == IF i = 0 THEN row ELSE SubSeq(row, n - i + 1, n)
        front == IF i = 0 THEN <<>> ELSE SubSeq(row, 1, n - i)
    IN  back \o front

RECURSIVE LexLess(_, _)
\* Python's < on two strings.
LexLess(a, b) ==
    IF b = <<>> THEN FALSE
    ELSE IF a = <<>> THEN TRUE
    ELSE IF Head(a) # Head(b) THEN Head(a) < Head(b)
    ELSE LexLess(Tail(a), Tail(b))

\* The table __init__ builds: the rotations of the alphabet, sorted.
VTable(a) == SortSeq([i \in 1..Len(a) |-> Rotate(a, i - 1)], LexLess)

Table26 == VTable(u_alpha)

Table52 == VTable(ul_alpha)

TableOf(f) == IF f THEN Table52 ELSE Table26

\* ------------------------------------------------------------------ VigenereCipher
\* list.index(c) / str.index(c): the first 0-based position of c; -1 stands for
\* the ValueError raised when c does not occur.
Index(row, c) ==
    IF c \in Range(row) THEN Min({i \in 1..Len(row) : row[i] = c}) - 1 ELSE -1

\* expand that falls back to the key "A" when the normalised key is empty.
expand_default(key, length, f) ==
    LET k == IF Normalize(key, f) = <<>> THEN <<65>> ELSE Normalize(key, f)
    IN  [err |-> "none", val |-> [i \in 1..length |-> k[((i - 1) % Len(k)) + 1]]]

\* expand(key, length): err is the exception raised ("none": it returned), val
\* the expanded key.  i % len(key) divides by zero when the normalised key is
\* empty and the loop body runs at all.
expand(key, length, f) ==
    LET k == Normalize(key, f)
    IN  IF length > 0 /\ Len(k) = 0
        THEN [err |-> "ZeroDivisionError", val |-> <<>>]
        ELSE [err |-> "none", val |-> [i \in 1..length |-> k[((i - 1) % Len(k)) + 1]]]

\* for j,l in enumerate(self.table): if l[0] == key[i]: ...
\* The 1-based rows of the table whose first symbol is k.
KeyRows(tbl, k) == {j \in 1..Len(tbl) : tbl[j][1] = k}

\* ri = 0; for j,l in enumerate(self.table): if l[0] == key[i]: ri = j
EncRow(tbl, k) == IF KeyRows(tbl, k) = {} THEN 1 ELSE Max(KeyRows(tbl, k))

\* encrypt that writes each symbol into self.text as it goes, so that a
\* ValueError leaves the symbols before it transformed.
VigenereEncrypt_partial(txt, key, tbl, f) ==
    LET e    == expand(key, Len(txt), f)
        bad  == {i \in 1..Len(txt) : Index(tbl[1], txt[i]) = -1}
        out  == [i \in 1..Len(txt) |->
                   IF i \in bad THEN txt[i]
                   ELSE tbl[EncRow(tbl, e.val[i])][Index(tbl[1], txt[i]) + 1]]
    IN  IF e.err # "none" THEN [err |-> e.err, done |-> 0, text |-> txt]
        ELSE IF bad # {}
        THEN [err |-> "ValueError", done |-> Min(bad) - 1,
              text |-> [i \in 1..Len(txt) |-> IF i < Min(bad) THEN out[i] ELSE txt[i]]]
        ELSE [err |-> "none", done |-> Len(txt), text |-> out]

\* The outcome of encrypt(key) on held text txt: err is the exception raised
\* ("none": it returned), done the number of symbols written to result before
\* it, text the text held afterwards.  self.text is assigned after the loop.
VigenereEncrypt(txt, key, tbl, f) ==
    LET e    == expand(key, Len(txt), f)
        \* ci = self.table[0].index(self.text[i]) raises ValueError
        bad  == {i \in 1..Len(txt) : Index(tbl[1], txt[i]) = -1}
        out  == [i \in 1..Len(txt) |->
                   tbl[EncRow(tbl, e.val[i])][Index(tbl[1], txt[i]) + 1]]
    IN  IF e.err # "none" THEN [err |-> e.err, done |-> 0, text |-> txt]
        ELSE IF bad # {} THEN [err |-> "ValueError", done |-> Min(bad) - 1, text |-> txt]
        ELSE [err |-> "none", done |-> Len(txt), text |-> out]

\* The outcome of decrypt(key) on held text txt.  result[i] stays '' when no
\* row of the table starts with key[i]; self.table[j].index(c) raises
\* ValueError when c is not in the row found.
VigenereDecrypt(txt, key, tbl, f) ==
    LET e     == expand(key, Len(txt), f)
        bad   == {i \in 1..Len(txt) :
                    \E j \in KeyRows(tbl, e.val[i]) : Index(tbl[j], txt[i]) = -1}
        parts == [i \in 1..Len(txt) |->
                    IF KeyRows(tbl, e.val[i]) = {} THEN <<>>
                    ELSE <<tbl[1][Index(tbl[Max(KeyRows(tbl, e.val[i]))], txt[i]) + 1]>>]
    IN  IF e.err # "none" THEN [err |-> e.err, done |-> 0, text |-> txt]
        ELSE IF bad # {} THEN [err |-> "ValueError", done |-> Min(bad) - 1, text |-> txt]
        ELSE [err |-> "none", done |-> Len(txt), text |-> Join(parts)]

\* ------------------------------------------------------------------ BlockAffineCipher
\* self.block = 2
block == 2

\* Padding that appends one 'A' whatever the length.
Pad_always(s) == Append(s, 65)

RECURSIVE Pad(_)
\* while (len(self.text) % self.block) > 0: self.text += 'A'
Pad(s) == IF Len(s) % block > 0 THEN Pad(Append(s, 65)) ELSE s

\* str.find(ch): the first 0-based position of ch, -1 when it does not occur.
find(a, ch) ==
    IF ch \in Range(a) THEN Min({i \in 1..Len(a) : a[i] = ch}) - 1 ELSE -1

RECURSIVE gcd(_, _)
\* fractions.gcd of Python 2: while b: a, b = b, a % b; return a
gcd(a, b) == IF b = 0 THEN a ELSE gcd(b, a % b)

\* get_inverse(a, m): ok is FALSE when it raises Exception("Couldn't find a
\* modulo inverse"), val the first i of range(1, m) with (a*i) % m == 1.
get_inverse(a, m) ==
    LET found == {i \in 1..(m - 1) : (a * i) % m = 1}
    IN  IF gcd(a, m) = 1 /\ found # {}
        THEN [ok |-> TRUE, val |-> Min(found)]
        ELSE [ok |-> FALSE, val |-> 0]

\* The offset added before the multiplication.
EncNum_offsetFirst(num, keya, keyb, m) == (keya * (num + keyb)) % m

\* num = ((keya*num) + keyb) % self.modulo
EncNum(num, keya, keyb, m) == ((keya * num) + keyb) % m

\* num = (mod_inv*(num - keyb)) % self.modulo
DecNum(num, inv, keyb, m) == (inv * (num - keyb)) % m

\* The outcome of encrypt(keya, keyb): self.alpha[num] raises IndexError when
\* num is past the end of the alphabet.
BlockAffineEncrypt(txt, keya, keyb, m, a) ==
    LET num == [i \in 1..Len(txt) |-> EncNum(find(a, txt[i]), keya, keyb, m)]
        bad == {i \in 1..Len(txt) : num[i] >= Len(a)}
    IN  IF bad # {} THEN [err |-> "IndexError", done |-> Min(bad) - 1, text |-> txt]
        ELSE [err |-> "none", done |-> Len(txt),
              text |-> [i \in 1..Len(txt) |-> a[num[i] + 1]]]

\* The outcome of decrypt(keya, keyb): get_inverse is called inside the loop,
\* once per symbol, so it is not called at all on an empty text.
BlockAffineDecrypt(txt, keya, keyb, m, a) ==
    LET inv == get_inverse(keya, m)
        num == [i \in 1..Len(txt) |-> DecNum(find(a, txt[i]), inv.val, keyb, m)]
        bad == {i \in 1..Len(txt) : num[i] >= Len(a)}
    IN  IF Len(txt) = 0 THEN [err |-> "none", done |-> 0, text |-> txt]
        ELSE IF ~inv.ok THEN [err |-> "Exception", done |-> 0, text |-> txt]
        ELSE IF bad # {} THEN [err |-> "IndexError", done |-> Min(bad) - 1, text |-> txt]
        ELSE [err |-> "none", done |-> Len(txt),
              text |-> [i \in 1..Len(txt) |-> a[num[i] + 1]]]

\* ------------------------------------------------------------------ the state machine
RawTexts == SeqsUpTo(RawChars, MaxLen)

\* VigenereCipher.__init__(plaintext, full)
InitVigenere ==
    \E p \in RawTexts, f \in BOOLEAN :
        /\ cls = "Vigenere"
        /\ raw = p
        /\ full = f
        /\ text = Normalize(p, f)
        /\ table = VTable(AlphaOf(f))
        /\ modulo = 0
        /\ alpha = <<>>
        /\ calls = <<>>

\* BlockAffineCipher.__init__(plaintext, modulo, full)
InitBlockAffine ==
    \E p \in RawTexts, m \in Moduli, f \in BOOLEAN :
        /\ cls = "BlockAffine"
        /\ raw = p
        /\ full = f
        /\ modulo = m
        /\ alpha = AlphaOf(f)
        /\ text = Pad(Normalize(p, f))
        /\ table = <<>>
        /\ calls = <<>>

Init == InitVigenere \/ InitBlockAffine

\* One entry of the call log: the method, its arguments, the text held when
\* it was called and how it ended.
Call(op, arg, r) ==
    [op |-> op, arg |-> arg, before |-> text, err |-> r.err, done |-> r.done]

VEncrypt ==
    /\ cls = "Vigenere"
    /\ Len(calls) < MaxCalls
    /\ \E key \in Keys :
         LET r == VigenereEncrypt(text, key, table, full)
         IN  /\ text' = r.text
             /\ calls' = Append(calls, Call("encrypt", key, r))
    /\ UNCHANGED <<cls, full, table, modulo, alpha, raw>>

VDecrypt ==
    /\ cls = "Vigenere"
    /\ Len(calls) < MaxCalls
    /\ \E key \in Keys :
         LET r == VigenereDecrypt(text, key, table, full)
         IN  /\ text' = r.text
             /\ calls' = Append(calls, Call("decrypt", key, r))
    /\ UNCHANGED <<cls, full, table, modulo, alpha, raw>>

BEncrypt ==
    /\ cls = "BlockAffine"
    /\ Len(calls) < MaxCalls
    /\ \E k \in AffineKeys :
         LET r == BlockAffineEncrypt(text, k[1], k[2], modulo, alpha)
         IN  /\ text' = r.text
             /\ calls' = Append(calls, Call("encrypt", k, r))
    /\ UNCHANGED <<cls, full, table, modulo, alpha, raw>>

BDecrypt ==
    /\ cls = "BlockAffine"
    /\ Len(calls) < MaxCalls
    /\ \E k \in AffineKeys :
         LET r == BlockAffineDecrypt(text, k[1], k[2], modulo, alpha)
         IN  /\ text' = r.text
             /\ calls' = Append(calls, Call("decrypt", k, r))
    /\ UNCHANGED <<cls, full, table, modulo, alpha, raw>>

Next == VEncrypt \/ VDecrypt \/ BEncrypt \/ BDecrypt

Spec == Init /\ [][Next]_vars

\* ------------------------------------------------------------------ properties
\* The text held when call i returned or raised.
After(i) == IF i = Len(calls) THEN text ELSE calls[i + 1].before

\* The active alphabet of the object.
Alphabet == AlphaOf(full)

InAlphabet(s) == Range(s) \subseteq Range(Alphabet)

\* a and m have no common divisor above 1.
Coprime(a, m) == ~ \E d \in 2..m : a % d = 0 /\ m % d = 0

\* The canonical index of a symbol of the alphabet a.
AlphaIndex(a, ch) == CHOOSE n \in 0..(Len(a) - 1) : a[n + 1] = ch

\* encrypt(K) then decrypt(K) were the first two calls, and both returned.
EncThenDec ==
    /\ Len(calls) >= 2
    /\ calls[1].op = "encrypt" /\ calls[1].err = "none"
    /\ calls[2].op = "decrypt" /\ calls[2].err = "none"
    /\ calls[1].arg = calls[2].arg

\* C1: a VigenereCipher constructed from T, after encrypt(K) and decrypt(K)
\* with a key K whose normalised form is not empty, holds T again.
C1_VigenereRoundTrip ==
    (cls = "Vigenere" /\ EncThenDec /\ Normalize(calls[1].arg, full) # <<>>)
        => After(2) = calls[1].before

\* The round trip of C1 when text and normalised key hold alphabet symbols only.
VigenereRoundTripInAlphabet ==
    (cls = "Vigenere" /\ EncThenDec /\ Normalize(calls[1].arg, full) # <<>>
        /\ InAlphabet(calls[1].before) /\ InAlphabet(Normalize(calls[1].arg, full)))
        => After(2) = calls[1].before

\* C2: a BlockAffineCipher whose modulus is the alphabet size, after
\* encrypt(A, B) and decrypt(A, B) with A coprime to the modulus, holds the
\* text it held before.
C2_AffineRoundTrip ==
    (cls = "BlockAffine" /\ EncThenDec /\ modulo = Len(alpha)
        /\ Coprime(calls[1].arg[1], modulo))
        => After(2) = calls[1].before

\* The round trip of C2 when the text holds alphabet symbols only.
AffineRoundTripInAlphabet ==
    (cls = "BlockAffine" /\ EncThenDec /\ modulo = Len(alpha)
        /\ Coprime(calls[1].arg[1], modulo) /\ Range(calls[1].before) \subseteq Range(alpha))
        => After(2) = calls[1].before

\* C3: every BlockAffineCipher.decrypt(a, b) with gcd(a, modulus) # 1 raises
\* the no-inverse Exception, whatever the held text, before any symbol is
\* transformed.
C3_NonInvertibleFails ==
    \A i \in 1..Len(calls) :
        (cls = "BlockAffine" /\ calls[i].op = "decrypt"
            /\ ~Coprime(calls[i].arg[1], modulo))
            => (calls[i].err = "Exception" /\ calls[i].done = 0)

\* C4 as stated: every VigenereCipher encrypt/decrypt call with a key that
\* normalises to the empty string raises an error before any symbol is
\* transformed.
C4_EmptyKeyFails ==
    \A i \in 1..Len(calls) :
        (cls = "Vigenere" /\ Normalize(calls[i].arg, full) = <<>>)
            => (calls[i].err # "none" /\ calls[i].done = 0)

\* C4 amended: every VigenereCipher encrypt/decrypt call with a key that
\* normalises to the empty string, made while the held text is not empty,
\* raises ZeroDivisionError in expand, before any symbol is transformed.
C4_EmptyKeyFailsOnText ==
    \A i \in 1..Len(calls) :
        (cls = "Vigenere" /\ Normalize(calls[i].arg, full) = <<>>
            /\ calls[i].before # <<>>)
            => (calls[i].err = "ZeroDivisionError" /\ calls[i].done = 0
                /\ After(i) = calls[i].before)

\* A decrypt with a key of non-word characters only failed on a held text.
C4_Witness ==
    \E i \in 1..Len(calls) :
        /\ cls = "Vigenere" /\ calls[i].op = "decrypt"
        /\ calls[i].arg # <<>> /\ Normalize(calls[i].arg, full) = <<>>
        /\ calls[i].before # <<>>
        /\ calls[i].err = "ZeroDivisionError"

\* C5: a call that raised left the held text as it was before the call, after
\* any calls made earlier.
C5_NoPartialTransform ==
    \A i \in 1..Len(calls) :
        calls[i].err # "none" => After(i) = calls[i].before

\* A call raised after it had produced a symbol, on a text an earlier,
\* successful call had changed.
C5_Witness ==
    \E i \in 2..Len(calls) :
        /\ calls[i].err # "none" /\ calls[i].done > 0
        /\ calls[i - 1].err = "none" /\ calls[i].before # calls[i - 1].before

\* C6: right after construction the held text holds symbols of the active
\* alphabet only.
C6_NormalizedInAlphabet == calls = <<>> => InAlphabet(text)

\* C7: the table of a VigenereCipher is square with the alphabet's size as
\* side, its row 0 is the alphabet, every row is a permutation of the alphabet,
\* and it is the table the constructor built.
C7_TableInvariant ==
    cls = "Vigenere" =>
        /\ Len(table) = Len(Alphabet)
        /\ \A r \in 1..Len(table) :
              /\ Len(table[r]) = Len(Alphabet)
              /\ Range(table[r]) = Range(Alphabet)
        /\ table[1] = Alphabet
        /\ table = TableOf(full)

\* An extended-alphabet VigenereCipher after two calls that returned and
\* changed the text.
C7_Witness ==
    /\ cls = "Vigenere" /\ full /\ Len(calls) >= 2
    /\ \A i \in 1..Len(calls) : calls[i].err = "none" /\ After(i) # calls[i].before

\* The text call i left is the affine image of the text it found: the same
\* length, and the symbol of index n replaced by that of index (a*n + b) mod m.
AffineImage(i) ==
    /\ Len(After(i)) = Len(calls[i].before)
    /\ \A k \in 1..Len(calls[i].before) :
          calls[i].before[k] \in Range(alpha) =>
              After(i)[k] = alpha[((calls[i].arg[1] * AlphaIndex(alpha, calls[i].before[k])
                                      + calls[i].arg[2]) % modulo) + 1]

\* C8 as stated: every BlockAffineCipher.encrypt(a, b) returns, for every
\* positive modulus, and leaves the affine image of the text.
C8_EncryptAlwaysDefined ==
    \A i \in 1..Len(calls) :
        (cls = "BlockAffine" /\ calls[i].op = "encrypt")
            => (calls[i].err = "none" /\ AffineImage(i))

\* C8 amended: every BlockAffineCipher.encrypt(a, b) on an object whose
\* modulus is positive and not above the alphabet size returns and leaves the
\* affine image of the text.
C8_EncryptDefinedUpToAlphabet ==
    \A i \in 1..Len(calls) :
        (cls = "BlockAffine" /\ calls[i].op = "encrypt" /\ modulo <= Len(alpha))
            => (calls[i].err = "none" /\ AffineImage(i))

\* An encrypt with a negative multiplier and offset, under the modulus of the
\* alphabet size, changed a held text.
C8_Witness ==
    \E i \in 1..Len(calls) :
        /\ cls = "BlockAffine" /\ calls[i].op = "encrypt" /\ modulo = Len(alpha)
        /\ calls[i].arg[1] < 0 /\ calls[i].arg[2] < 0
        /\ calls[i].before # <<>> /\ After(i) # calls[i].before

\* C9: a VigenereCipher encrypt/decrypt call that returns, with a key whose
\* normalised form is not empty, leaves a text of the length it found.
C9_LengthPreserved ==
    \A i \in 1..Len(calls) :
        (cls = "Vigenere" /\ calls[i].err = "none"
            /\ Normalize(calls[i].arg, full) # <<>>)
            => Len(After(i)) = Len(calls[i].before)

\* C10: the BlockAffineCipher constructor appends one alphabet[0] to a
\* normalised text of odd length and nothing to one of even length, and the
\* held text's length is a multiple of 2 in every state.
C10_BlockPadding ==
    cls = "BlockAffine" =>
        /\ Len(text) % 2 = 0
        /\ calls = <<>> =>
              text = IF Len(Normalize(raw, full)) % 2 = 1
                     THEN Append(Normalize(raw, full), alpha[1])
                     ELSE Normalize(raw, full)

\* A BlockAffineCipher built from a text of odd normalised length, after two
\* calls that returned and changed the text.
C10_Witness ==
    /\ cls = "BlockAffine" /\ Len(Normalize(raw, full)) % 2 = 1
    /\ Len(calls) >= 2
    /\ \A i \in 1..Len(calls) : calls[i].err = "none" /\ After(i) # calls[i].before

====
